---------------------------- MODULE Spec2Model ----------------------------
(***************************************************************************)
(* AutoMapperValidator (src/src/ts/AutoMapperValidator.ts): the dry-run    *)
(* validation of a registry of mapping configurations.                     *)
(*                                                                         *)
(* Representation of the values the code handles:                          *)
(*   - a type class is the record [members |-> list], the list of own      *)
(*     enumerable member names an instance built by `new T()` carries, in  *)
(*     for-in order; an unspecified type class is Undefined;               *)
(*   - an ISourceProperty is [name, destinationPropertyName, destination,  *)
(*     children]; destination is an IDestinationProperty record or         *)
(*     Undefined, children is [items |-> list] or Undefined;               *)
(*   - an IDestinationProperty is [name, destinationPropertyName, ignore,  *)
(*     sourceMapping]; an absent flag reads as FALSE;                      *)
(*   - a message is [text, member]: the text of the template string of the *)
(*     code and the name interpolated into it; Error(...) carries the      *)
(*     mapping key and the message. The class names in the message come    *)
(*     from AutoMapperHelper.getClassName, which is outside this file, and *)
(*     are left out of the record.                                         *)
(***************************************************************************)
EXTENDS Integers, Sequences, FiniteSets, TLC

VARIABLES
    mappings,           \* the registry: its own entries in for-in order
    strictMode,         \* the strictMode argument
    key,                \* position of the for-in loop of assertConfigurationIsValid
    pc,                 \* control point: walk | properties | source | destination | returned | thrown
    srcObj,             \* own enumerable members of new sourceType()
    dstObj,             \* own enumerable members of new destinationType()
    validatedMembers,   \* the validatedMembers array
    i,                  \* position of the current loop inside assertMappingConfiguration
    destinationProperty,\* result of the last getDestinationProperty call
    thrown,             \* what the call threw, NoError while nothing was thrown
    checks,             \* history: the checks made for the current mapping, <<pass, name>>
    accepted,           \* history: member names pass (a) checked and accepted
    visited,            \* history: registry positions handed to assertMappingConfiguration
    passed              \* history: registry positions whose validation returned normally

vars == <<mappings, strictMode, key, pc, srcObj, dstObj, validatedMembers, i,
          destinationProperty, thrown, checks, accepted, visited, passed>>

-----------------------------------------------------------------------------
(* Bounds of the input domain *)

MaxProperties == 2
MaxMappings == 2
MaxChildren == 2

Names == {"a", "b"}

-----------------------------------------------------------------------------
(* Values *)

Undefined == [undefined |-> TRUE]
Null == [null |-> TRUE]
NoMessage == [text |-> "", member |-> ""]
NoError == [kind |-> "none", mappingKey |-> <<0, 0>>, text |-> "", member |-> ""]

SeqsUpTo(S, n) == UNION {[1..k -> S] : k \in 0..n}

Range(s) == {s[k] : k \in DOMAIN s}

\* lists of distinct member names: the own enumerable keys of an instance
MemberLists ==
    {s \in SeqsUpTo(Names, Cardinality(Names)) :
        \A j, k \in DOMAIN s : j # k => s[j] # s[k]}

TypeClasses == {[members |-> s] : s \in MemberLists}

\* obj.hasOwnProperty(member)
hasOwnProperty(obj, member) == \E k \in DOMAIN obj : obj[k] = member

\* faulty variants of isValidated: an indexOf test that always holds, one that never does
isValidatedAlways(validated, member) == TRUE

isValidatedNever(validated, member) == FALSE

\* validatedMembers.indexOf(member) >= 0
isValidated(validated, member) == \E k \in DOMAIN validated : validated[k] = member

\* `${mapping.sourceKey}=>${mapping.destinationKey}`
mappingKey(mapping) == <<mapping.sourceKey, mapping.destinationKey>>

Message(text, member) == [text |-> text, member |-> member]

-----------------------------------------------------------------------------
(* getDestinationProperty: own destination, else first child that resolves *)

RECURSIVE getDestinationProperty(_, _)
RECURSIVE searchChildren(_, _, _)

\* faulty variant of searchChildren: returns what the first child resolves to, found or not
searchChildrenFirstOnly(destinationPropertyName, children, k) ==
    IF k > Len(children)
    THEN Null
    ELSE getDestinationProperty(destinationPropertyName, children[k])

searchChildren(destinationPropertyName, children, k) ==
    IF k > Len(children)
    THEN Null
    ELSE LET destination == getDestinationProperty(destinationPropertyName, children[k])
         IN  IF destination # Null
             THEN destination
             ELSE searchChildren(destinationPropertyName, children, k + 1)

getDestinationProperty(destinationPropertyName, existingSource) ==
    IF existingSource.destination # Undefined
    THEN existingSource.destination
    ELSE IF existingSource.children # Undefined
         THEN searchChildren(destinationPropertyName, existingSource.children.items, 1)
         ELSE Null

-----------------------------------------------------------------------------
(* The presence checks *)

\* faulty variant of validateSourcePropertyMapping: the ignore flag is not consulted
validateSourcePropertyMappingNoIgnore(propertyMapping, destination, member, src, dst) ==
    IF ~hasOwnProperty(src, member)
    THEN Message("Source member is configured, but does not exist on source type", member)
    ELSE IF ~hasOwnProperty(dst, member)
         THEN Message("Source member is configured to be mapped, but does not exist on destination type", member)
         ELSE NoMessage

validateSourcePropertyMapping(propertyMapping, destination, member, src, dst) ==
    IF ~hasOwnProperty(src, member)
    THEN Message("Source member is configured, but does not exist on source type", member)
    ELSE IF destination.ignore
         THEN IF hasOwnProperty(dst, member)
              THEN Message("Source member is ignored, but does exist on destination type", member)
              ELSE NoMessage
         ELSE IF ~hasOwnProperty(dst, member)
              THEN Message("Source member is configured to be mapped, but does not exist on destination type", member)
              ELSE NoMessage

\* faulty variant of validateDestinationPropertyMapping: the first test looks for `member`
\* on the destination instead of the rule's destination name
validateDestinationPropertyMappingByMember(propertyMapping, destination, member, src, dst) ==
    IF ~hasOwnProperty(dst, member)
    THEN Message("Destination member is configured, but does not exist on destination type",
                 destination.destinationPropertyName)
    ELSE IF destination.ignore
         THEN IF hasOwnProperty(src, member)
              THEN Message("Destination member is ignored, but does exist on source type", member)
              ELSE NoMessage
         ELSE IF ~hasOwnProperty(src, member)
              THEN Message("Destination member is configured to be mapped, but does not exist on source type", member)
              ELSE NoMessage

validateDestinationPropertyMapping(propertyMapping, destination, member, src, dst) ==
    IF ~hasOwnProperty(dst, destination.name)
    THEN Message("Destination member is configured, but does not exist on destination type",
                 destination.destinationPropertyName)
    ELSE IF destination.ignore
         THEN IF hasOwnProperty(src, member)
              THEN Message("Destination member is ignored, but does exist on source type", member)
              ELSE NoMessage
         ELSE IF ~hasOwnProperty(src, member)
              THEN Message("Destination member is configured to be mapped, but does not exist on source type", member)
              ELSE NoMessage

\* faulty variant of validateProperty: the destination is not consulted
validatePropertyLenient(srcMember, dst) == NoMessage

validateProperty(srcMember, dst) ==
    IF ~hasOwnProperty(dst, srcMember)
    THEN Message("Source member is configured to be mapped, but does not exist on destination type", srcMember)
    ELSE NoMessage

\* validatePropertyMapping once getDestinationProperty has returned `destination`;
\* reading destination.sourceMapping of null is a TypeError
TypeErrorMessage == Message("TypeError: Cannot read property 'sourceMapping' of null", "")

validatePropertyMapping(propertyMapping, destination, member, src, dst) ==
    IF destination = Null
    THEN TypeErrorMessage
    ELSE IF destination.sourceMapping
         THEN validateSourcePropertyMapping(propertyMapping, destination, member, src, dst)
         ELSE validateDestinationPropertyMapping(propertyMapping, destination, member, src, dst)

\* tryHandle's Error, with the mapping key and the message of the check
ConfigurationError(mapping, message) ==
    [kind |-> "Error", mappingKey |-> mappingKey(mapping),
     text |-> message.text, member |-> message.member]

TypeError(mapping) ==
    [kind |-> "TypeError", mappingKey |-> mappingKey(mapping),
     text |-> TypeErrorMessage.text, member |-> ""]

UnspecifiedText == "cannot be validated, since mapping.sourceType or mapping.destinationType are unspecified"

UnmappedText == "Destination member does not exist on source type"

-----------------------------------------------------------------------------
(* Input domain *)

DestinationProperties ==
    {[name |-> n, destinationPropertyName |-> n, ignore |-> ig, sourceMapping |-> sm] :
        n \in Names, ig \in BOOLEAN, sm \in BOOLEAN}

\* rules without children: a direct destination or none
FlatProperties ==
    {[name |-> n, destinationPropertyName |-> n, destination |-> d, children |-> Undefined] :
        n \in Names, d \in DestinationProperties \cup {Undefined}}

Mapping(k, s, d, p) ==
    [sourceKey |-> k, destinationKey |-> k, sourceTypeClass |-> s,
     destinationTypeClass |-> d, properties |-> p]

\* one mapping, any type classes, up to MaxProperties flat rules
InitMapping ==
    /\ strictMode \in BOOLEAN
    /\ \E s \in TypeClasses \cup {Undefined}, d \in TypeClasses \cup {Undefined},
          p \in SeqsUpTo(FlatProperties, MaxProperties) :
            mappings = <<Mapping(1, s, d, p)>>

\* the type classes the registry walk is exercised on
WalkTypeClasses ==
    {Undefined, [members |-> <<"a">>], [members |-> <<"b">>], [members |-> <<"a", "b">>]}

\* a registry of up to MaxMappings entries without explicit rules; entry k has key k=>k
InitWalk ==
    /\ strictMode \in BOOLEAN
    /\ \E n \in 0..MaxMappings :
         \E s \in [1..n -> WalkTypeClasses], d \in [1..n -> WalkTypeClasses] :
            mappings = [k \in 1..n |-> Mapping(k, s[k], d[k], <<>>)]

\* rule trees: leaves, nodes over leaves, and a root over up to MaxChildren of either
TreeDestinations ==
    {[name |-> "a", destinationPropertyName |-> "b", ignore |-> FALSE, sourceMapping |-> TRUE],
     [name |-> "b", destinationPropertyName |-> "a", ignore |-> FALSE, sourceMapping |-> FALSE]}

Rule(d, c) == [name |-> "a", destinationPropertyName |-> "a", destination |-> d, children |-> c]

LeafRules ==
    {Rule(d, Undefined) : d \in TreeDestinations \cup {Undefined}}
        \cup {Rule(Undefined, [items |-> <<>>])}

InnerRules ==
    {Rule(Undefined, [items |-> c]) : c \in SeqsUpTo(LeafRules, 2) \ {<<>>}}

RootRules ==
    {Rule(d, c) :
        d \in TreeDestinations \cup {Undefined},
        c \in {Undefined} \cup
              {[items |-> t] : t \in SeqsUpTo(LeafRules \cup InnerRules, MaxChildren)}}

\* one mapping whose single rule is a tree
InitTree ==
    /\ strictMode = TRUE
    /\ \E d \in {<<"a">>, <<"b">>}, r \in RootRules :
         mappings = <<Mapping(1, [members |-> <<"a">>], [members |-> d], <<r>>)>>

Start ==
    /\ key = 1
    /\ pc = "walk"
    /\ srcObj = <<>>
    /\ dstObj = <<>>
    /\ validatedMembers = <<>>
    /\ i = 1
    /\ destinationProperty = Null
    /\ thrown = NoError
    /\ checks = <<>>
    /\ accepted = {}
    /\ visited = <<>>
    /\ passed = {}

Init == (InitMapping \/ InitWalk \/ InitTree) /\ Start

-----------------------------------------------------------------------------
(* assertConfigurationIsValid and assertMappingConfiguration, step by step *)

Unresolved(mapping) ==
    mapping.sourceTypeClass = Undefined \/ mapping.destinationTypeClass = Undefined

\* faulty variant of Throw: the error is recorded and the registry walk goes on
ThrowAndGoOn(error) ==
    /\ thrown' = error
    /\ pc' = "walk"

Throw(error) ==
    /\ thrown' = error
    /\ pc' = "thrown"

\* faulty variant of SkipUnresolved: strictMode is not consulted
SkipUnresolvedAnyMode ==
    /\ pc = "walk" /\ key <= Len(mappings)
    /\ Unresolved(mappings[key])
    /\ key' = key + 1
    /\ visited' = Append(visited, key)
    /\ passed' = passed \cup {key}
    /\ checks' = <<>>
    /\ accepted' = {}
    /\ UNCHANGED <<mappings, strictMode, pc, srcObj, dstObj, validatedMembers, i,
                   destinationProperty, thrown>>

\* line 38-40: a type reference is missing and strictMode === false: return
SkipUnresolved ==
    /\ pc = "walk" /\ key <= Len(mappings)
    /\ Unresolved(mappings[key])
    /\ strictMode = FALSE
    /\ key' = key + 1
    /\ visited' = Append(visited, key)
    /\ passed' = passed \cup {key}
    /\ checks' = <<>>
    /\ accepted' = {}
    /\ UNCHANGED <<mappings, strictMode, pc, srcObj, dstObj, validatedMembers, i,
                   destinationProperty, thrown>>

\* line 38-43: a type reference is missing, strictMode is not false: throw
ThrowUnresolved ==
    /\ pc = "walk" /\ key <= Len(mappings)
    /\ Unresolved(mappings[key])
    /\ strictMode # FALSE
    /\ Throw(ConfigurationError(mappings[key], Message(UnspecifiedText, "")))
    /\ visited' = Append(visited, key)
    /\ checks' = <<>>
    /\ accepted' = {}
    /\ UNCHANGED <<mappings, strictMode, key, srcObj, dstObj, validatedMembers, i,
                   destinationProperty, passed>>

\* line 52-55: both type references present: new validatedMembers, srcObj, dstObj
Instantiate ==
    /\ pc = "walk" /\ key <= Len(mappings)
    /\ ~Unresolved(mappings[key])
    /\ validatedMembers' = <<>>
    /\ srcObj' = mappings[key].sourceTypeClass.members
    /\ dstObj' = mappings[key].destinationTypeClass.members
    /\ pc' = "properties"
    /\ i' = 1
    /\ visited' = Append(visited, key)
    /\ checks' = <<>>
    /\ accepted' = {}
    /\ UNCHANGED <<mappings, strictMode, key, destinationProperty, thrown, passed>>

\* line 58-62: one iteration of the walk over mapping.properties
WalkProperty ==
    /\ pc = "properties" /\ i <= Len(mappings[key].properties)
    /\ LET mapping == mappings[key]
           property == mapping.properties[i]
           destination == getDestinationProperty(property.destinationPropertyName, property)
           errorMessage == validatePropertyMapping(property, destination, property.name, srcObj, dstObj)
       IN  /\ destinationProperty' = destination
           /\ checks' = Append(checks, <<"a", property.name>>)
           /\ IF errorMessage = TypeErrorMessage
              THEN /\ Throw(TypeError(mapping))
                   /\ UNCHANGED <<validatedMembers, i, accepted>>
              ELSE IF errorMessage # NoMessage
              THEN /\ Throw(ConfigurationError(mapping, errorMessage))
                   /\ UNCHANGED <<validatedMembers, i, accepted>>
              ELSE /\ validatedMembers' = Append(validatedMembers, property.name)
                   /\ i' = i + 1
                   /\ accepted' = accepted \cup {property.name} \cup
                                    (IF destination.sourceMapping THEN {} ELSE {destination.name})
                   /\ UNCHANGED <<pc, thrown>>
    /\ UNCHANGED <<mappings, strictMode, key, srcObj, dstObj, visited, passed>>

\* line 58/65: the properties are exhausted, the walk over srcObj begins
EndProperties ==
    /\ pc = "properties" /\ i > Len(mappings[key].properties)
    /\ pc' = "source"
    /\ i' = 1
    /\ UNCHANGED <<mappings, strictMode, key, srcObj, dstObj, validatedMembers,
                   destinationProperty, thrown, checks, accepted, visited, passed>>

\* line 65-77: one iteration of the walk over the source members
WalkSourceMember ==
    /\ pc = "source" /\ i <= Len(srcObj)
    /\ LET srcMember == srcObj[i]
       IN  IF isValidated(validatedMembers, srcMember)
           THEN /\ i' = i + 1
                /\ UNCHANGED <<pc, thrown, validatedMembers, checks>>
           ELSE LET errorMessage == validateProperty(srcMember, dstObj)
                IN  /\ checks' = Append(checks, <<"b", srcMember>>)
                    /\ IF errorMessage # NoMessage
                       THEN /\ Throw(ConfigurationError(mappings[key], errorMessage))
                            /\ UNCHANGED <<validatedMembers, i>>
                       ELSE /\ validatedMembers' = Append(validatedMembers, srcMember)
                            /\ i' = i + 1
                            /\ UNCHANGED <<pc, thrown>>
    /\ UNCHANGED <<mappings, strictMode, key, srcObj, dstObj, destinationProperty,
                   accepted, visited, passed>>

\* line 65/80: the source members are exhausted, the walk over dstObj begins
EndSourceMembers ==
    /\ pc = "source" /\ i > Len(srcObj)
    /\ pc' = "destination"
    /\ i' = 1
    /\ UNCHANGED <<mappings, strictMode, key, srcObj, dstObj, validatedMembers,
                   destinationProperty, thrown, checks, accepted, visited, passed>>

\* line 80-91: one iteration of the walk over the destination members
WalkDestinationMember ==
    /\ pc = "destination" /\ i <= Len(dstObj)
    /\ LET dstMember == dstObj[i]
       IN  IF isValidated(validatedMembers, dstMember)
           THEN /\ i' = i + 1
                /\ UNCHANGED <<pc, thrown, checks>>
           ELSE /\ checks' = Append(checks, <<"c", dstMember>>)
                /\ Throw(ConfigurationError(mappings[key], Message(UnmappedText, dstMember)))
                /\ UNCHANGED i
    /\ UNCHANGED <<mappings, strictMode, key, srcObj, dstObj, validatedMembers,
                   destinationProperty, accepted, visited, passed>>

\* line 91-95, 20: assertMappingConfiguration returns, the registry walk moves on
EndDestinationMembers ==
    /\ pc = "destination" /\ i > Len(dstObj)
    /\ pc' = "walk"
    /\ key' = key + 1
    /\ passed' = passed \cup {key}
    /\ UNCHANGED <<mappings, strictMode, srcObj, dstObj, validatedMembers, i,
                   destinationProperty, thrown, checks, accepted, visited>>

\* line 20-27: no entry is left, assertConfigurationIsValid returns
Return ==
    /\ pc = "walk" /\ key > Len(mappings)
    /\ pc' = "returned"
    /\ UNCHANGED <<mappings, strictMode, key, srcObj, dstObj, validatedMembers, i,
                   destinationProperty, thrown, checks, accepted, visited, passed>>

Next ==
    \/ SkipUnresolved
    \/ ThrowUnresolved
    \/ Instantiate
    \/ WalkProperty
    \/ EndProperties
    \/ WalkSourceMember
    \/ EndSourceMembers
    \/ WalkDestinationMember
    \/ EndDestinationMembers
    \/ Return

Spec == Init /\ [][Next]_vars

-----------------------------------------------------------------------------
(* Vocabulary of the properties *)

\* the registry entry last handed to assertMappingConfiguration
Current == visited[Len(visited)]

CurrentMapping == mappings[Current]

\* the validation of the current entry has ended, by return or by throw
Settled == visited # <<>> /\ pc \in {"walk", "returned", "thrown"}

Failed == pc = "thrown"

PassOfLastCheck == IF checks = <<>> THEN "none" ELSE checks[Len(checks)][1]

\* number of entries of mapping.properties checked so far
NumConfigured == Cardinality({k \in DOMAIN checks : checks[k][1] = "a"})

FailedAtProperty(j) == Failed /\ PassOfLastCheck = "a" /\ i = j

Resolved(property) == getDestinationProperty(property.destinationPropertyName, property)

SourceMembers(mapping) == Range(mapping.sourceTypeClass.members)

DestinationMembers(mapping) == Range(mapping.destinationTypeClass.members)

RuleNames(mapping) == {mapping.properties[k].name : k \in DOMAIN mapping.properties}

-----------------------------------------------------------------------------
(* C1: a mapping lacking a type reference fails, with the 'unspecified'     *)
(* failure naming its key, exactly when strictMode is true; when strictMode *)
(* is false it returns normally and none of its properties is examined.     *)
C1_UnresolvedFailsIffStrict ==
    /\ pc \in {"properties", "source", "destination"} => ~Unresolved(mappings[key])
    /\ \A k \in Range(visited) :
         Unresolved(mappings[k]) =>
            /\ strictMode =>
                 /\ pc = "thrown" /\ key = k
                 /\ thrown = [kind |-> "Error",
                              mappingKey |-> <<mappings[k].sourceKey, mappings[k].destinationKey>>,
                              text |-> UnspecifiedText, member |-> ""]
            /\ ~strictMode => k \in passed /\ (pc = "thrown" => key # k)
            /\ k = Current => checks = <<>>

C1_Witness ==
    /\ ~strictMode
    /\ visited # <<>>
    /\ Unresolved(CurrentMapping)
    /\ CurrentMapping.properties # <<>>
    /\ Current \in passed

-----------------------------------------------------------------------------
(* C2: the walk hands the registry's entries to the validator in registry   *)
(* order, each once; a failure is that of the first invalid entry and ends  *)
(* the walk, no later entry being validated; without failure every entry is *)
(* validated and the call returns; a non-strict skip does not stop the walk.*)
ValidWithoutRules(mapping) ==
    IF Unresolved(mapping)
    THEN ~strictMode
    ELSE SourceMembers(mapping) = DestinationMembers(mapping)

NoRules == \A k \in DOMAIN mappings : mappings[k].properties = <<>>

C2_WalkIsOrderedAndFailFast ==
    /\ visited = [k \in 1..Len(visited) |-> k]
    /\ passed \subseteq Range(visited)
    /\ pc = "thrown" =>
         /\ key = Current
         /\ thrown.mappingKey = <<mappings[key].sourceKey, mappings[key].destinationKey>>
         /\ passed = 1..(key - 1)
         /\ NoRules => /\ ~ValidWithoutRules(mappings[key])
                       /\ \A k \in 1..(key - 1) : ValidWithoutRules(mappings[k])
    /\ pc = "returned" =>
         /\ thrown = NoError
         /\ visited = [k \in 1..Len(mappings) |-> k]
         /\ passed = 1..Len(mappings)
         /\ NoRules => \A k \in 1..Len(mappings) : ValidWithoutRules(mappings[k])
    /\ \A k \in Range(visited) :
         (Unresolved(mappings[k]) /\ ~strictMode /\ k < Len(mappings) /\ pc \in {"returned", "thrown"})
            => (k + 1) \in Range(visited)

C2_Witness ==
    /\ pc = "thrown"
    /\ key = 2
    /\ ~strictMode
    /\ Unresolved(mappings[1])

-----------------------------------------------------------------------------
(* C3 *)
IgnoredSourceRule(property) ==
    /\ Resolved(property) # Null
    /\ Resolved(property).sourceMapping
    /\ Resolved(property).ignore

-----------------------------------------------------------------------------
(* C4 *)
\* m is owned by the destination only and no rule names it or targets it
Uncovered(mapping, m) ==
    /\ m \in DestinationMembers(mapping) \ SourceMembers(mapping)
    /\ \A k \in DOMAIN mapping.properties :
         /\ mapping.properties[k].name # m
         /\ Resolved(mapping.properties[k]) # Null => Resolved(mapping.properties[k]).name # m

\* every rule's check returns no message
NoRuleFails(mapping) ==
    \A k \in DOMAIN mapping.properties :
        validatePropertyMapping(mapping.properties[k], Resolved(mapping.properties[k]),
                                mapping.properties[k].name,
                                mapping.sourceTypeClass.members,
                                mapping.destinationTypeClass.members) = NoMessage

\* every source member is named by a rule or owned by the destination
SourceCovered(mapping) ==
    SourceMembers(mapping) \subseteq (RuleNames(mapping) \cup DestinationMembers(mapping))

\* the first destination member, in enumeration order, that is neither a rule's
\* name nor a source member
FirstUnmapped(mapping) ==
    LET dst == mapping.destinationTypeClass.members
        open == {k \in DOMAIN dst : dst[k] \notin (RuleNames(mapping) \cup SourceMembers(mapping))}
    IN  dst[CHOOSE k \in open : \A l \in open : k <= l]

\* C4 as stated: a destination-only member that no rule covers makes validation fail
\* with the 'Destination member does not exist on source type' failure.
C4_AsStated ==
    (Settled /\ ~Unresolved(CurrentMapping) /\ thrown.kind # "TypeError"
        /\ \E m \in Names : Uncovered(CurrentMapping, m)) =>
        /\ Failed
        /\ thrown.kind = "Error"
        /\ thrown.text = UnmappedText

\* C4 amended: such a mapping never validates; the failure is the 'Destination member
\* does not exist on source type' failure, naming the first destination member that is
\* neither a rule's name nor a source member, whenever no rule's check fails and every
\* source member is named by a rule or owned by the destination; otherwise the failure
\* of the earlier pass is the one raised.
C4_UnmappedDestinationMember ==
    (Settled /\ ~Unresolved(CurrentMapping)
        /\ \E m \in Names : Uncovered(CurrentMapping, m)) =>
        /\ Failed
        /\ (NoRuleFails(CurrentMapping) /\ SourceCovered(CurrentMapping)) =>
              thrown = [kind |-> "Error",
                        mappingKey |-> <<CurrentMapping.sourceKey, CurrentMapping.destinationKey>>,
                        text |-> UnmappedText,
                        member |-> FirstUnmapped(CurrentMapping)]
        /\ ~(NoRuleFails(CurrentMapping) /\ SourceCovered(CurrentMapping)) =>
              thrown.text # UnmappedText

C4_Witness ==
    /\ Settled /\ Failed
    /\ ~Unresolved(CurrentMapping)
    /\ CurrentMapping.properties # <<>>
    /\ \E m \in Names : Uncovered(CurrentMapping, m)
    /\ thrown.text = UnmappedText

-----------------------------------------------------------------------------
(* C5: a member name that pass (a) checked and accepted through a rule (the *)
(* rule's name, and the destination name a destination-originated rule      *)
(* targets) is never the subject of a failure of pass (b) or pass (c).      *)
C5_AcceptedNeverReflagged ==
    (pc = "thrown" /\ PassOfLastCheck \in {"b", "c"}) => thrown.member \notin accepted

-----------------------------------------------------------------------------
(* C6 *)
\* C6 as stated: within one validation of one mapping no name is checked twice.
C6_AsStated ==
    thrown.kind # "TypeError" =>
        \A j, k \in DOMAIN checks : j # k => checks[j][2] # checks[k][2]

\* C6 amended: passes (b) and (c) never check a name that was checked before in the
\* same validation; pass (a) checks every entry of properties, in order, without
\* consulting the validated-member set, so a name listed n times is checked n times.
C6_LaterPassesSkipValidated ==
    /\ \A k \in DOMAIN checks :
         checks[k][1] \in {"b", "c"} => \A j \in 1..(k - 1) : checks[j][2] # checks[k][2]
    /\ checks # <<>> =>
         /\ NumConfigured <= Len(CurrentMapping.properties)
         /\ \A k \in 1..NumConfigured : checks[k] = <<"a", CurrentMapping.properties[k].name>>
    /\ pc \in {"source", "destination"} => NumConfigured = Len(mappings[key].properties)

C6_Witness ==
    /\ Len(checks) >= 3
    /\ checks[1] = checks[2]
    /\ checks[3][1] = "b"

-----------------------------------------------------------------------------
(* C7: resolution on a finite rule tree ends and returns the rule's own     *)
(* destination when it has one, otherwise the first destination found among *)
(* its children depth-first in sequence order, otherwise nothing; with two  *)
(* children of which only the second holds a destination, that destination. *)
RECURSIVE DestinationsOf(_)
RECURSIVE DestinationsOfAll(_)

\* the destinations of a rule tree in depth-first, left-to-right order
DestinationsOf(rule) ==
    (IF rule.destination # Undefined THEN <<rule.destination>> ELSE <<>>)
        \o (IF rule.children # Undefined THEN DestinationsOfAll(rule.children.items) ELSE <<>>)

DestinationsOfAll(rules) ==
    IF rules = <<>> THEN <<>> ELSE DestinationsOf(Head(rules)) \o DestinationsOfAll(Tail(rules))

C7_ResolutionIsDepthFirst ==
    NumConfigured > 0 =>
        LET rule == CurrentMapping.properties[NumConfigured]
            all == DestinationsOf(rule)
        IN  /\ destinationProperty = (IF all = <<>> THEN Null ELSE all[1])
            /\ rule.destination # Undefined => destinationProperty = rule.destination
            /\ (/\ rule.destination = Undefined
                /\ rule.children # Undefined
                /\ Len(rule.children.items) = 2
                /\ DestinationsOf(rule.children.items[1]) = <<>>
                /\ rule.children.items[2].destination # Undefined)
                  => destinationProperty = rule.children.items[2].destination

C7_Witness ==
    /\ NumConfigured > 0
    /\ LET rule == CurrentMapping.properties[NumConfigured]
       IN  /\ rule.destination = Undefined
           /\ rule.children # Undefined
           /\ Len(rule.children.items) = 2
           /\ rule.children.items[1].children # Undefined
           /\ rule.children.items[1].children.items # <<>>
           /\ DestinationsOf(rule.children.items[1]) = <<>>
           /\ rule.children.items[2].destination # Undefined
           /\ destinationProperty = rule.children.items[2].destination

-----------------------------------------------------------------------------
(* C8: validation ends by normal return or by one configuration failure     *)
(* carrying the mapping key and the condition text; no other fault is       *)
(* raised, also when resolution of a configured property yields nothing.    *)
C8_OnlyConfigurationFailures ==
    /\ thrown.kind \in {"none", "Error"}
    /\ pc = "thrown" =>
         /\ thrown.kind = "Error"
         /\ thrown.mappingKey = <<mappings[key].sourceKey, mappings[key].destinationKey>>
         /\ thrown.text # ""

-----------------------------------------------------------------------------
(* C9: the check of a configured property follows the two-branch table,     *)
(* selected by sourceMapping of the resolved rule: the conditions are       *)
(* tested in the table's order and the first that holds gives the message.  *)
TableText(rule, member, S, D) ==
    IF rule.sourceMapping
    THEN CASE member \notin S -> "Source member is configured, but does not exist on source type"
           [] member \in S /\ rule.ignore /\ member \in D ->
                "Source member is ignored, but does exist on destination type"
           [] member \in S /\ ~rule.ignore /\ member \notin D ->
                "Source member is configured to be mapped, but does not exist on destination type"
           [] OTHER -> ""
    ELSE CASE rule.name \notin D -> "Destination member is configured, but does not exist on destination type"
           [] rule.name \in D /\ rule.ignore /\ member \in S ->
                "Destination member is ignored, but does exist on source type"
           [] rule.name \in D /\ ~rule.ignore /\ member \notin S ->
                "Destination member is configured to be mapped, but does not exist on source type"
           [] OTHER -> ""

C9_ChecksFollowTable ==
    (pc \in {"properties", "thrown"} /\ PassOfLastCheck = "a" /\ destinationProperty # Null) =>
        LET j == IF pc = "thrown" THEN i ELSE i - 1
            member == mappings[key].properties[j].name
            expected == TableText(destinationProperty, member, Range(srcObj), Range(dstObj))
        IN  IF expected = ""
            THEN pc = "properties"
            ELSE pc = "thrown" /\ thrown.kind = "Error" /\ thrown.text = expected

C9_Witness ==
    /\ pc = "thrown"
    /\ PassOfLastCheck = "a"
    /\ destinationProperty # Null
    /\ ~destinationProperty.sourceMapping
    /\ destinationProperty.name # mappings[key].properties[i].name
    /\ thrown.text = "Destination member is ignored, but does exist on source type"

-----------------------------------------------------------------------------
(* C10: with both type references and no rules, validation succeeds exactly *)
(* when the two instances own the same member names; when they differ, a    *)
(* source-only member is reported in preference to a destination-only one.  *)
C10_NoRulesNeedsEqualMembers ==
    (Settled /\ ~Unresolved(CurrentMapping) /\ CurrentMapping.properties = <<>>) =>
        LET S == SourceMembers(CurrentMapping)
            D == DestinationMembers(CurrentMapping)
        IN  /\ ~Failed <=> S = D
            /\ S \ D # {} =>
                 /\ thrown.text = "Source member is configured to be mapped, but does not exist on destination type"
                 /\ thrown.member \in S \ D
            /\ (S \ D = {} /\ D \ S # {}) =>
                 /\ thrown.text = UnmappedText
                 /\ thrown.member \in D \ S

C10_Witness ==
    /\ Settled /\ Failed
    /\ ~Unresolved(CurrentMapping)
    /\ CurrentMapping.properties = <<>>
    /\ SourceMembers(CurrentMapping) \ DestinationMembers(CurrentMapping) # {}
    /\ DestinationMembers(CurrentMapping) \ SourceMembers(CurrentMapping) # {}
    /\ thrown.member \in SourceMembers(CurrentMapping)

=============================================================================
